---- MODULE Spec2Model ----
(***************************************************************************)
(* PersonaGym evaluator (green agent): one evaluation run of               *)
(* PersonaGymEvaluator, from request validation to the result artifact.    *)
(*                                                                         *)
(* Python values are modelled as follows.                                  *)
(*   str    a sequence of one-character strings; the fixed message texts   *)
(*          keep their exact prefix ("Error: ", "Error") and abbreviate    *)
(*          the rest of the text to a short tag                            *)
(*   None   the distinguished sequence <<"None">> (no str has an element   *)
(*          longer than one character)                                     *)
(*   dict   a function whose DOMAIN is the set of keys present             *)
(***************************************************************************)
EXTENDS Integers, Sequences, FiniteSets, TLC

VARIABLES
    request,      \* the EvalRequest of the run: participants, config
    pc,           \* position of the run
    validation,   \* what validate_request returned
    persona,      \* run_eval local
    questions,    \* run_eval local: list of {task, question}
    qa_pairs,     \* _ask_questions local: list of {task, question, answer}
    context_id,   \* _ask_questions local: continuity token
    idx,          \* _ask_questions: number of questions already iterated
    scores,       \* run_eval local: result of _score_answers
    sent,         \* send_message requests issued, in order
    replies,      \* outcome of each send_message call, in order
    profileCalls, \* number of GET /profile requests issued
    statusLog,    \* progress messages delivered by updater.update_status
    artifacts,    \* result artifacts added by updater.add_artifact
    failedMsgs,   \* causes passed to updater.failed
    exc,          \* exception that left run_eval
    profileResp   \* what the GET /profile request came to

vars == << request, pc, validation, persona, questions, qa_pairs, context_id,
           idx, scores, sent, replies, profileCalls, statusLog, artifacts,
           failedMsgs, exc, profileResp >>

----------------------------------------------------------------------------
(* Bounds of the model *)

\* largest explicit num_questions of a request
MaxNum == 2

\* _generate_questions is called with every count in -MinCount .. MaxCount
MinCount == 4

MaxCount == 12

\* _score_answers is called with every list of at most MaxTurns turns over
\* the coarse answers, and with every single turn whose answer has a length
\* in 0 .. MaxFineLen, or LongLen
MaxTurns == 3

MaxFineLen == 300

LongLen == 1000

\* length of the text after "Error: " in the long error answer
LongErrLen == 300

----------------------------------------------------------------------------
(* Python values *)

None == << "None" >>

IsStr(v) == v # None

\* s.startswith(p)
StartsWith(s, p) == Len(s) >= Len(p) /\ SubSeq(s, 1, Len(p)) = p

\* d.get(k, default)
DictGet(d, k, default) == IF k \in DOMAIN d THEN d[k] ELSE default

EmptyDict == [k \in {} |-> None]

ErrorWord == << "E", "r", "r", "o", "r" >>

\* "Error: "
ErrorSentinel == ErrorWord \o << ":", " " >>

\* "Error: Persona description not found."
ErrNotFound == ErrorSentinel \o << "N" >>

\* "Error: Failed to connect to White Agent at <profile_url>"
ErrConnect == ErrorSentinel \o << "F" >>

\* "Error: Could not retrieve persona."
ErrRetrieve == ErrorSentinel \o << "C" >>

\* "Error: No response"
ErrNoResponse == ErrorSentinel \o << "N", "o" >>

----------------------------------------------------------------------------
(* Module constants *)

DEFAULT_TASKS ==
    << "Expected Action", "Action Justification", "Linguistic Habits",
       "Persona Consistency", "Toxicity" >>

question_templates ==
    << "How would you introduce yourself?",
       "What is your professional background?",
       "How do you typically approach problem-solving?",
       "What are your key strengths?",
       "Describe a challenging situation you've handled." >>

_required_roles == { "agent" }

\* req.config.get("num_questions", 4)
DefaultNumQuestions == 4

----------------------------------------------------------------------------
(* Inputs *)

IntVal(n) == [type |-> "int", v |-> n]

\* a num_questions that is no number (a JSON string, null)
NotANumber == [type |-> "str", v |-> 0]

NumValues == { IntVal(n) : n \in -1 .. MaxNum } \cup { NotANumber }

Configs == { EmptyDict } \cup { [k \in {"num_questions"} |-> n] : n \in NumValues }

Participants == { [r \in roles |-> "url"] : roles \in { {}, {"other"}, {"agent"} } }

Requests == [participants : Participants, config : Configs]

\* persona_description values a profile may carry
PersonaValues == { << "P" >>, << >>, None, ErrorWord \o << "!" >> }

\* what the GET /profile request can come to
ProfileResponses ==
    { [kind |-> k, json |-> EmptyDict] : k \in {"RequestError", "HTTPStatusError", "BadJSON", "OK"} }
    \cup { [kind |-> "OK", json |-> [f \in {"persona_description"} |-> p]] : p \in PersonaValues }

\* response texts of the subject
ResponseTexts == { << "h", "i" >>, << >> }

Tokens == { << "c", "1" >>, << "c", "2" >> }

ResultField(k) == IF k = "response" THEN ResponseTexts ELSE Tokens \cup { None }

\* the dicts send_message can return: each of the keys response and context_id
\* present or not, the context_id possibly None
Results ==
    { r \in UNION { [ks -> ResponseTexts \cup Tokens \cup { None }] :
                        ks \in SUBSET {"response", "context_id"} } :
        \A k \in DOMAIN r : r[k] \in ResultField(k) }

\* no profile response received yet
NoResp == [kind |-> "none", json |-> EmptyDict]

\* str(e) of the exceptions send_message can raise
RaiseTexts == { << "t" >> }

----------------------------------------------------------------------------
(* Exceptions *)

Exc(type, arg) == [type |-> type, arg |-> arg]

NoExc == Exc("none", << >>)

\* the delivery error of updater.update_status
StatusError == Exc("StatusError", << >>)

\* the delivery error of updater.add_artifact
ArtifactError == Exc("ArtifactError", << >>)

TypeError == Exc("TypeError", << >>)

KeyError == Exc("KeyError", << >>)

\* asyncio.CancelledError, raised at the pending await of a cancelled task
CancelledError == Exc("CancelledError", << >>)

\* an except clause that catches everything (except BaseException)
Catches_all(e) == TRUE

\* except Exception: CancelledError derives from BaseException and passes
Catches(e) == e.type # "CancelledError"

\* ValueError(f"Failed to get persona: {persona}")
PersonaError(p) == Exc("ValueError", p)

----------------------------------------------------------------------------
(* Pure functions of PersonaGymEvaluator *)

Min(a, b) == IF a < b THEN a ELSE b

Max(a, b) == IF a > b THEN a ELSE b

\* validate_request that reports no missing role
validate_request_accepts(req) == [ok |-> TRUE, reason |-> "ok", roles |-> {}]

\* validate_request: (ok, reason)
validate_request(req) ==
    LET missing_roles == _required_roles \ DOMAIN req.participants
    IN  IF missing_roles # {}
        THEN [ok |-> FALSE, reason |-> "Missing roles", roles |-> missing_roles]
        ELSE [ok |-> TRUE, reason |-> "ok", roles |-> {}]

\* num_questions = req.config.get("num_questions", 4)
NumQuestions(req) == DictGet(req.config, "num_questions", IntVal(DefaultNumQuestions))

\* _get_persona_from_profile with profile_json.get("persona_description", "")
_get_persona_from_profile_blank(resp) ==
    CASE resp.kind = "RequestError" -> ErrConnect
      [] resp.kind = "HTTPStatusError" -> ErrRetrieve
      [] resp.kind = "BadJSON" -> ErrRetrieve
      [] OTHER -> DictGet(resp.json, "persona_description", << >>)

\* the string _get_persona_from_profile returns for an outcome of its request:
\* RequestError is caught by the first except clause; raise_for_status
\* (HTTPStatusError) and response.json() (BadJSON) by the second
_get_persona_from_profile(resp) ==
    CASE resp.kind = "RequestError" -> ErrConnect
      [] resp.kind = "HTTPStatusError" -> ErrRetrieve
      [] resp.kind = "BadJSON" -> ErrRetrieve
      [] OTHER -> DictGet(resp.json, "persona_description", ErrNotFound)

\* for i in range(num_questions), the templates cycled
_generate_questions_unclamped(p, num_questions, domain) ==
    [ i \in 1 .. Max(num_questions, 0) |->
        [ task |-> DEFAULT_TASKS[((i - 1) % Len(DEFAULT_TASKS)) + 1],
          question |-> question_templates[((i - 1) % Len(question_templates)) + 1] ] ]

\* for i in range(min(num_questions, len(question_templates)))
_generate_questions(p, num_questions, domain) ==
    LET n == Max(Min(num_questions, Len(question_templates)), 0)
    IN  [ i \in 1 .. n |->
            [ task |-> DEFAULT_TASKS[((i - 1) % Len(DEFAULT_TASKS)) + 1],
              question |-> question_templates[i] ] ]

\* a check that knows the missing-field message only
IsErrorPersona_notFoundOnly(p) == p = ErrNotFound

\* if persona.startswith("Error")
IsErrorPersona(p) == StartsWith(p, ErrorWord)

\* the turn appended when send_message returned result
AnswerOf(result) == DictGet(result, "response", ErrNoResponse)

\* context_id = result.get("context_id", context_id)
NextContext(result, ctx) == DictGet(result, "context_id", ctx)

\* the answer recorded when send_message raised e: f"Error: {str(e)}"
ErrorAnswer(text) == ErrorSentinel \o text

Turn(q, answer) == [task |-> q.task, question |-> q.question, answer |-> answer]

\* qa_pairs.append(...) after send_message returned
RecordAnswer(qas, q, result) == Append(qas, Turn(q, AnswerOf(result)))

\* an except clause that logs the failure and appends nothing
RecordError_dropped(qas, q, text) == qas

\* qa_pairs.append(...) of the except clause
RecordError(qas, q, text) == Append(qas, Turn(q, ErrorAnswer(text)))

----------------------------------------------------------------------------
(* _score_answers; scores are exact rationals [num, den] *)

MaxScore == 5

MinScore == 1

LengthPerPoint == 50

RECURSIVE Gcd(_, _)
Gcd(a, b) == IF b = 0 THEN a ELSE Gcd(b, a % b)

Rat(n, d) == LET g == Gcd(n, d) IN [num |-> n \div g, den |-> d \div g]

RatAdd(a, b) == Rat(a.num * b.den + b.num * a.den, a.den * b.den)

RatDiv(a, k) == Rat(a.num, a.den * k)

\* a score without the startswith("Error") test
TurnScore_noErrorCheck(answer) ==
    Rat(Min(MaxScore * LengthPerPoint,
            Max(MinScore * LengthPerPoint, Len(answer))), LengthPerPoint)

\* a score without the max(1.0, ...) floor
TurnScore_noFloor(answer) ==
    IF StartsWith(answer, ErrorWord)
    THEN Rat(0, 1)
    ELSE Rat(Min(MaxScore * LengthPerPoint, Len(answer)), LengthPerPoint)

\* a score without the upper limit: max(1.0, len(answer) / 50.0)
TurnScore_noCap(answer) ==
    IF StartsWith(answer, ErrorWord)
    THEN Rat(0, 1)
    ELSE Rat(Max(MinScore * LengthPerPoint, Len(answer)), LengthPerPoint)

\* score = 0.0 for an error answer, else min(5.0, max(1.0, len(answer) / 50.0))
TurnScore(answer) ==
    IF StartsWith(answer, ErrorWord)
    THEN Rat(0, 1)
    ELSE Rat(Min(MaxScore * LengthPerPoint,
                 Max(MinScore * LengthPerPoint, Len(answer))), LengthPerPoint)

RECURSIVE SumScores(_, _)
SumScores(qas, task) ==
    IF qas = << >> THEN Rat(0, 1)
    ELSE LET rest == SumScores(Tail(qas), task)
         IN  IF Head(qas).task = task
             THEN RatAdd(TurnScore(Head(qas).answer), rest)
             ELSE rest

\* a count that leaves the error turns out
TaskCount_nonError(qas, task) ==
    Max(1, Cardinality({ k \in 1 .. Len(qas) :
                           qas[k].task = task /\ ~StartsWith(qas[k].answer, ErrorWord) }))

TaskCount(qas, task) == Cardinality({ k \in 1 .. Len(qas) : qas[k].task = task })

RECURSIVE SumOver(_, _)
SumOver(f, S) ==
    IF S = {} THEN Rat(0, 1)
    ELSE LET t == CHOOSE t \in S : TRUE
         IN  RatAdd(f[t], SumOver(f, S \ {t}))

RECURSIVE SumTurns(_)
SumTurns(qas) ==
    IF qas = << >> THEN Rat(0, 1)
    ELSE RatAdd(TurnScore(Head(qas).answer), SumTurns(Tail(qas)))

\* _score_answers whose overall score is the mean of the turn scores
_score_answers_rawMean(p, qas) ==
    LET tasks == { qas[k].task : k \in 1 .. Len(qas) }
    IN  [ overall_score |->
              IF tasks # {} THEN RatDiv(SumTurns(qas), Len(qas)) ELSE Rat(0, 1),
          per_task_scores |->
              [ t \in tasks |-> RatDiv(SumScores(qas, t), TaskCount(qas, t)) ] ]

_score_answers(p, qas) ==
    LET tasks == { qas[k].task : k \in 1 .. Len(qas) }
        per_task_scores ==
            [ t \in tasks |-> RatDiv(SumScores(qas, t), TaskCount(qas, t)) ]
        overall_score ==
            IF tasks # {}
            THEN RatDiv(SumOver(per_task_scores, tasks), Cardinality(tasks))
            ELSE Rat(0, 1)
    IN  [overall_score |-> overall_score, per_task_scores |-> per_task_scores]

NoScores == [overall_score |-> Rat(0, 1), per_task_scores |-> EmptyDict]

----------------------------------------------------------------------------
(* The run *)

Init ==
    /\ request \in Requests
    /\ pc = "validate"
    /\ validation = [ok |-> TRUE, reason |-> "", roles |-> {}]
    /\ persona = None
    /\ questions = << >>
    /\ qa_pairs = << >>
    /\ context_id = None
    /\ idx = 0
    /\ scores = NoScores
    /\ sent = << >>
    /\ replies = << >>
    /\ profileCalls = 0
    /\ statusLog = << >>
    /\ artifacts = << >>
    /\ failedMsgs = << >>
    /\ exc = NoExc
    /\ profileResp = NoResp

\* await updater.update_status(TaskState.working, msg): delivered, or raising
UpdateStatus(delivered, msg) ==
    statusLog' = IF delivered THEN Append(statusLog, msg) ELSE statusLog

\* except Exception as e: await updater.failed(...); raise
Handler(e) ==
    /\ failedMsgs' = Append(failedMsgs, e)
    /\ exc' = e
    /\ pc' = "raised"

\* an exception raised before the try statement leaves run_eval as it is
Propagate(e) ==
    /\ exc' = e
    /\ pc' = "raised"
    /\ UNCHANGED failedMsgs

\* the executor validates the request and calls run_eval only when it is valid
Validate ==
    /\ pc = "validate"
    /\ validation' = validate_request(request)
    /\ pc' = IF validation'.ok THEN "start" ELSE "rejected"
    /\ UNCHANGED << request, persona, questions, qa_pairs, context_id, idx,
                    scores, sent, replies, profileCalls, statusLog, artifacts,
                    failedMsgs, exc,
                    profileResp >>

\* run_eval up to the try statement: req.participants["agent"], the first
\* status update
Start ==
    /\ pc = "start"
    /\ IF "agent" \notin DOMAIN request.participants
       THEN Propagate(KeyError) /\ UNCHANGED statusLog
       ELSE \E delivered \in BOOLEAN :
              /\ UpdateStatus(delivered, "Starting")
              /\ IF delivered
                 THEN pc' = "fetching" /\ UNCHANGED << exc, failedMsgs >>
                 ELSE Propagate(StatusError)
    /\ UNCHANGED << request, validation, persona, questions, qa_pairs,
                    context_id, idx, scores, sent, replies, profileCalls,
                    artifacts,
                    profileResp >>

\* Step 1: the status update, then the GET /profile request is issued
FetchPersona ==
    /\ pc = "fetching"
    /\ \E delivered \in BOOLEAN :
         /\ UpdateStatus(delivered, "Fetching")
         /\ IF delivered
            THEN /\ profileCalls' = profileCalls + 1
                 /\ pc' = "await_profile"
                 /\ UNCHANGED << exc, failedMsgs >>
            ELSE Handler(StatusError) /\ UNCHANGED profileCalls
    /\ UNCHANGED << request, validation, persona, questions, qa_pairs,
                    context_id, idx, scores, sent, replies, artifacts,
                    profileResp >>

\* the profile request completes; persona[:80], the startswith("Error") check
\* and the status update that shows the persona
ProfileReturn ==
    /\ pc = "await_profile"
    /\ \E resp \in ProfileResponses, delivered \in BOOLEAN :
         LET p == _get_persona_from_profile(resp)
         IN  /\ profileResp' = resp
             /\ persona' = p
             /\ IF ~IsStr(p)
                THEN Handler(TypeError) /\ UNCHANGED statusLog
                ELSE IF IsErrorPersona(p)
                THEN Handler(PersonaError(p)) /\ UNCHANGED statusLog
                ELSE /\ UpdateStatus(delivered, "Persona")
                     /\ IF delivered
                        THEN pc' = "generating" /\ UNCHANGED << exc, failedMsgs >>
                        ELSE Handler(StatusError)
    /\ UNCHANGED << request, validation, questions, qa_pairs, context_id, idx,
                    scores, sent, replies, profileCalls, artifacts >>

\* Step 2: the status update and _generate_questions
GenerateQuestions ==
    /\ pc = "generating"
    /\ \E delivered \in BOOLEAN :
         /\ UpdateStatus(delivered, "Generating")
         /\ IF ~delivered
            THEN Handler(StatusError) /\ UNCHANGED questions
            ELSE IF NumQuestions(request).type # "int"
            THEN Handler(TypeError) /\ UNCHANGED questions
            ELSE /\ questions' =
                        _generate_questions(persona, NumQuestions(request).v, "general")
                 /\ pc' = "asking"
                 /\ UNCHANGED << exc, failedMsgs >>
    /\ UNCHANGED << request, validation, persona, qa_pairs, context_id, idx,
                    scores, sent, replies, profileCalls, artifacts,
                    profileResp >>

\* a loop that stops one question early
LoopPc_early(n) == IF n + 1 < Len(questions) THEN "send" ELSE "scoring"

\* where _ask_questions goes after idx questions
LoopPc(n) == IF n < Len(questions) THEN "send" ELSE "scoring"

\* Step 3: the status update, then _ask_questions starts: qa_pairs = [],
\* context_id = None
BeginAsk ==
    /\ pc = "asking"
    /\ \E delivered \in BOOLEAN :
         /\ UpdateStatus(delivered, "Asking")
         /\ IF delivered
            THEN /\ qa_pairs' = << >>
                 /\ context_id' = None
                 /\ idx' = 0
                 /\ pc' = LoopPc(0)
                 /\ UNCHANGED << exc, failedMsgs >>
            ELSE Handler(StatusError) /\ UNCHANGED << qa_pairs, context_id, idx >>
    /\ UNCHANGED << request, validation, persona, questions, scores, sent,
                    replies, profileCalls, artifacts,
                    profileResp >>

\* send_message(message=question, base_url=..., context_id=context_id) is issued
SendTurn ==
    /\ pc = "send"
    /\ sent' = Append(sent, [message |-> questions[idx + 1].question,
                             context_id |-> context_id])
    /\ pc' = "await_reply"
    /\ UNCHANGED << request, validation, persona, questions, qa_pairs,
                    context_id, idx, scores, replies, profileCalls, statusLog,
                    artifacts, failedMsgs, exc,
                    profileResp >>

\* send_message returns a dict, one of the set S
TurnReturnFrom(S) ==
    /\ pc = "await_reply"
    /\ \E result \in S :
         /\ replies' = Append(replies, [kind |-> "return", result |-> result,
                                         text |-> << >>])
         /\ context_id' = NextContext(result, context_id)
         /\ qa_pairs' = RecordAnswer(qa_pairs, questions[idx + 1], result)
    /\ idx' = idx + 1
    /\ pc' = LoopPc(idx + 1)
    /\ UNCHANGED << request, validation, persona, questions, scores, sent,
                    profileCalls, statusLog, artifacts, failedMsgs, exc,
                    profileResp >>

TurnReturn == TurnReturnFrom(Results)

\* an except clause that asks the same question again (bounded, to keep
\* the retries finite)
TurnRaise_retry ==
    /\ pc = "await_reply"
    /\ \E text \in RaiseTexts :
         replies' = Append(replies, [kind |-> "raise", result |-> EmptyDict,
                                     text |-> text])
    /\ IF Len(sent) < 2 * Len(question_templates)
       THEN /\ pc' = "send"
            /\ UNCHANGED << idx, qa_pairs >>
       ELSE /\ qa_pairs' = Append(qa_pairs, Turn(questions[idx + 1], << >>))
            /\ idx' = idx + 1
            /\ pc' = IF idx + 1 < Len(questions) THEN "send" ELSE "scoring"
    /\ UNCHANGED << request, validation, persona, questions, context_id,
                    scores, sent, profileCalls, statusLog, artifacts,
                    failedMsgs, exc, profileResp >>

\* send_message raises: the except clause of the turn
TurnRaise ==
    /\ pc = "await_reply"
    /\ \E text \in RaiseTexts :
         /\ replies' = Append(replies, [kind |-> "raise", result |-> EmptyDict,
                                         text |-> text])
         /\ qa_pairs' = RecordError(qa_pairs, questions[idx + 1], text)
    /\ idx' = idx + 1
    /\ pc' = LoopPc(idx + 1)
    /\ UNCHANGED << request, validation, persona, questions, context_id,
                    scores, sent, profileCalls, statusLog, artifacts,
                    failedMsgs, exc,
                    profileResp >>

\* Step 4: the status update and _score_answers
Score ==
    /\ pc = "scoring"
    /\ \E delivered \in BOOLEAN :
         /\ UpdateStatus(delivered, "Scoring")
         /\ IF delivered
            THEN /\ scores' = _score_answers(persona, qa_pairs)
                 /\ pc' = "reporting"
                 /\ UNCHANGED << exc, failedMsgs >>
            ELSE Handler(StatusError) /\ UNCHANGED scores
    /\ UNCHANGED << request, validation, persona, questions, qa_pairs,
                    context_id, idx, sent, replies, profileCalls, artifacts,
                    profileResp >>

\* result_data of Step 5
ResultData ==
    [ persona |-> persona,
      persona_score |-> scores.overall_score,
      per_task_scores |-> scores.per_task_scores,
      num_questions |-> Len(questions) ]

\* Step 5: updater.add_artifact, added or raising
Report ==
    /\ pc = "reporting"
    /\ \E added \in BOOLEAN :
         IF added
         THEN /\ artifacts' = Append(artifacts, ResultData)
              /\ pc' = "done"
              /\ UNCHANGED << exc, failedMsgs >>
         ELSE Handler(ArtifactError) /\ UNCHANGED artifacts
    /\ UNCHANGED << request, validation, persona, questions, qa_pairs,
                    context_id, idx, scores, sent, replies, profileCalls,
                    statusLog,
                    profileResp >>

Next ==
    \/ Validate
    \/ Start
    \/ FetchPersona
    \/ ProfileReturn
    \/ GenerateQuestions
    \/ BeginAsk
    \/ SendTurn
    \/ TurnReturn
    \/ TurnRaise
    \/ Score
    \/ Report

Spec == Init /\ [][Next]_vars

----------------------------------------------------------------------------
(* Properties *)

\* _ask_questions has returned
AskReturned ==
    \/ pc \in {"scoring", "reporting", "done"}
    \/ pc = "raised" /\ Len(statusLog) >= 5

\* the profile request has completed
ProfileKnown == profileResp # NoResp

\* the outcomes of the profile request that are discovery failures: transport
\* failure, non-200 status, undecodable body, persona_description missing
ProfileFailed ==
    \/ profileResp.kind \in {"RequestError", "HTTPStatusError", "BadJSON"}
    \/ profileResp.kind = "OK" /\ "persona_description" \notin DOMAIN profileResp.json

\* C1: _ask_questions returns exactly one turn per question, the i-th turn
\* with the category and the text of the i-th question, whichever turns
\* raised in send_message
C1_OneTurnPerQuestion ==
    /\ Len(qa_pairs) = Len(replies)
    /\ AskReturned =>
         /\ Len(qa_pairs) = Len(questions)
         /\ \A k \in 1 .. Len(questions) :
              /\ qa_pairs[k].task = questions[k].task
              /\ qa_pairs[k].question = questions[k].question

\* four questions asked, the second turn raised and the later ones returned
C1_Witness ==
    /\ pc = "done"
    /\ Len(replies) = 4
    /\ replies[2].kind = "raise"
    /\ replies[1].kind = "return"
    /\ replies[3].kind = "return"
    /\ replies[4].kind = "raise"

\* the reply of turn k is a successful turn that returned the token t
ReturnedToken(k, t) ==
    /\ replies[k].kind = "return"
    /\ "context_id" \in DOMAIN replies[k].result
    /\ replies[k].result["context_id"] = t

Successful(k) ==
    /\ replies[k].kind = "return"
    /\ "response" \in DOMAIN replies[k].result
    /\ replies[k].result["response"] # << >>

\* C2: the first request carries no context_id, and a token returned by a
\* successful turn is the context_id of every later request until the
\* subject returns another token
C2_TokenThreaded ==
    /\ Len(sent) >= 1 => sent[1].context_id = None
    /\ \A i \in 1 .. Len(replies) : \A j \in (i + 1) .. Len(sent) : \A t \in Tokens :
         ( /\ Successful(i)
           /\ ReturnedToken(i, t)
           /\ \A k \in (i + 1) .. (j - 1) : \A u \in Tokens : ~ReturnedToken(k, u) )
         => sent[j].context_id = t

\* the turn k failed: send_message raised, or its result has no response
\* field, or an empty response
FailedTurn(k) ==
    \/ replies[k].kind = "raise"
    \/ /\ replies[k].kind = "return"
       /\ \/ "response" \notin DOMAIN replies[k].result
          \/ replies[k].result["response"] = << >>

\* C3: every failed turn (transport error, no response field, empty
\* response) is recorded with an answer that begins with "Error: "
C3_FailedTurnsMarked ==
    \A k \in 1 .. Len(replies) :
        FailedTurn(k) => StartsWith(qa_pairs[k].answer, ErrorSentinel)

\* C4: a run whose request lacks the role "agent" goes from validation to
\* the rejection and nowhere else, validate_request returning (False, reason),
\* with no profile request and no send_message
C4_MissingAgentRejected ==
    "agent" \notin DOMAIN request.participants =>
        /\ pc \in {"validate", "rejected"}
        /\ pc = "rejected" => ~validation.ok /\ validation.roles = {"agent"}
        /\ profileCalls = 0
        /\ sent = << >>
        /\ statusLog = << >>

C4_Witness ==
    /\ pc = "rejected"
    /\ DOMAIN request.participants = {"other"}
    /\ ~validation.ok

\* C5: when persona discovery fails the run is aborted: no question is
\* generated, no send_message is issued, no artifact is added, and
\* updater.failed reports the discovery error that run_eval raises
C5_DiscoveryFailureAborts ==
    (ProfileKnown /\ ProfileFailed) =>
        /\ pc = "raised"
        /\ questions = << >>
        /\ sent = << >>
        /\ artifacts = << >>
        /\ exc = PersonaError(persona)
        /\ failedMsgs = << PersonaError(persona) >>

C5_Witness ==
    /\ profileResp.kind = "RequestError"
    /\ pc = "raised"
    /\ failedMsgs = << PersonaError(ErrConnect) >>

\* question generation has been reached
ReachedGeneration ==
    pc \in {"generating", "asking", "send", "await_reply", "scoring", "reporting", "done"}

\* C6: a profile whose persona_description is the empty string is a
\* discovery error: the run never reaches question generation with an empty
\* persona
C6_EmptyPersonaRejected ==
    ReachedGeneration => persona # << >>

\* C7: _get_persona_from_profile returns an error string for every failed
\* request, the connection error for a transport failure, a discovery error
\* for a non-200 status, an undecodable body or a missing field; no exception
\* of the request leaves it, and the run fails on each of these results
C7_DiscoveryClassified ==
    ProfileKnown =>
        /\ profileResp.kind = "RequestError" => persona = ErrConnect
        /\ profileResp.kind \in {"HTTPStatusError", "BadJSON"} => persona = ErrRetrieve
        /\ (profileResp.kind = "OK" /\ "persona_description" \notin DOMAIN profileResp.json)
             => persona = ErrNotFound
        /\ ProfileFailed =>
             /\ StartsWith(persona, ErrorSentinel)
             /\ pc = "raised"
             /\ exc.type = "ValueError"

C7_Witness ==
    /\ profileResp.kind = "OK"
    /\ "persona_description" \notin DOMAIN profileResp.json
    /\ persona = ErrNotFound
    /\ pc = "raised"

\* C8: a status update that cannot be delivered never fails the run
C8_StatusFailureHarmless ==
    pc = "raised" => exc # StatusError

\* C9: an error raised in run_eval makes the run Failed and is surfaced:
\* updater.failed is called with the cause, and the error is re-raised
C9_ErrorsReported ==
    pc = "raised" => exc # NoExc /\ failedMsgs = << exc >>

Terminal == pc \in {"done", "raised", "rejected"}

\* C10: every run ends either Done, with the artifact added once and no
\* failure reported, or Failed, with a failure reported and no artifact
C10_OneOutcome ==
    Terminal =>
        \/ pc = "done" /\ Len(artifacts) = 1 /\ failedMsgs = << >>
        \/ pc = "rejected" /\ ~validation.ok /\ artifacts = << >> /\ failedMsgs = << >>
        \/ pc = "raised" /\ Len(failedMsgs) = 1 /\ artifacts = << >>

\* the messages of a log
Delivered(msg) == \E k \in 1 .. Len(statusLog) : statusLog[k] = msg

\* scoring or reporting has begun
ScoringBegun ==
    \/ Delivered("Scoring")
    \/ pc \in {"reporting", "done"}
    \/ artifacts # << >>

\* C11: the steps of a run are causally sequential: the profile request has
\* completed before questions are generated, the questions are generated
\* before the first send_message, the request of turn i+1 is issued only
\* after turn i completed, in question order, and scoring and the artifact
\* come after the last turn completed
C11_Sequential ==
    /\ (Delivered("Generating") \/ questions # << >>) => ProfileKnown /\ profileCalls = 1
    /\ sent # << >> => Delivered("Asking") /\ Len(sent) <= Len(questions)
    /\ Len(replies) <= Len(sent)
    /\ Len(sent) <= Len(replies) + 1
    /\ \A k \in 1 .. Len(sent) : sent[k].message = questions[k].question
    /\ ScoringBegun => Len(replies) = Len(questions) /\ Len(sent) = Len(questions)

\* a run that went through all steps with four turns
C11_Witness ==
    /\ pc = "done"
    /\ Len(replies) = 4
    /\ Len(statusLog) = 6
    /\ Len(artifacts) = 1

\* C12: nothing is retried and no two turns overlap: at most one profile
\* request, exactly one once discovery completed; no question is sent twice
\* and, once _ask_questions returned, each question was sent exactly once
\* whether its call returned or raised; at most one send_message in flight
C12_NoRetry ==
    /\ profileCalls <= 1
    /\ ProfileKnown => profileCalls = 1
    /\ \A i, j \in 1 .. Len(sent) : i # j => sent[i].message # sent[j].message
    /\ Len(sent) <= Len(questions)
    /\ AskReturned => Len(sent) = Len(questions) /\ Len(replies) = Len(questions)
    /\ Len(sent) - Len(replies) \in {0, 1}
    /\ Len(sent) - Len(replies) = 1 <=> pc = "await_reply"

\* a turn raised, a turn returned, and each question was sent once
C12_Witness ==
    /\ AskReturned
    /\ Len(sent) = 2
    /\ replies[1].kind = "raise"
    /\ replies[2].kind = "return"

----------------------------------------------------------------------------
(* _generate_questions alone: called once for each count and persona *)

GenConfigs ==
    { EmptyDict }
    \cup { [k \in {"num_questions"} |-> IntVal(n)] : n \in -MinCount .. MaxCount }

InitGen ==
    /\ request \in [participants : { [r \in {"agent"} |-> "url"] }, config : GenConfigs]
    /\ pc = "gen_call"
    /\ validation = validate_request(request)
    /\ persona \in { p \in PersonaValues : IsStr(p) }
    /\ questions = << >>
    /\ qa_pairs = << >>
    /\ context_id = None
    /\ idx = 0
    /\ scores = NoScores
    /\ sent = << >>
    /\ replies = << >>
    /\ profileCalls = 0
    /\ statusLog = << >>
    /\ artifacts = << >>
    /\ failedMsgs = << >>
    /\ exc = NoExc
    /\ profileResp = NoResp

\* questions = self._generate_questions(persona, num_questions, domain)
CallGenerate ==
    /\ pc = "gen_call"
    /\ \E domain \in {"general", "medical"} :
         questions' = _generate_questions(persona, NumQuestions(request).v, domain)
    /\ pc' = "gen_done"
    /\ UNCHANGED << request, validation, persona, qa_pairs, context_id, idx,
                    scores, sent, replies, profileCalls, statusLog, artifacts,
                    failedMsgs, exc, profileResp >>

NextGen == CallGenerate

SpecGen == InitGen /\ [][NextGen]_vars

\* the count _generate_questions was called with
GenCount == NumQuestions(request).v

\* C14: _generate_questions returns min(max(count, 0), 5) questions for every
\* integer count, the i-th (0-indexed) being template i with category
\* DEFAULT_TASKS[i mod 5]; count 4 gives the first four categories, count 10
\* gives five questions
C14_Generated ==
    pc = "gen_done" =>
        LET n == IF GenCount < 0 THEN 0 ELSE IF GenCount > 5 THEN 5 ELSE GenCount
        IN  /\ Len(questions) = n
            /\ \A i \in 0 .. (n - 1) :
                 /\ questions[i + 1].question = question_templates[i + 1]
                 /\ questions[i + 1].task = DEFAULT_TASKS[(i % 5) + 1]
            /\ GenCount = 4 =>
                 [ k \in 1 .. 4 |-> questions[k].task ] =
                     << "Expected Action", "Action Justification",
                        "Linguistic Habits", "Persona Consistency" >>
            /\ GenCount = 10 => Len(questions) = 5

\* counts beyond the pool and below zero were generated for
C14_Witness ==
    /\ pc = "gen_done"
    /\ GenCount = 10
    /\ Len(questions) = 5
    /\ questions[5].task = "Toxicity"

----------------------------------------------------------------------------
(* _score_answers alone: called once for each list of turns *)

\* a text of n characters
Text(n) == [ i \in 1 .. n |-> "x" ]

ScoreTasks == { DEFAULT_TASKS[1], DEFAULT_TASKS[5] }

\* answers of the lengths 0, 50, 200 and 250, the answer of a raised turn,
\* a long "Error: ..." answer, and an answer that begins with "Errors"
CoarseAnswers ==
    { Text(0), Text(LengthPerPoint), Text(4 * LengthPerPoint), Text(MaxScore * LengthPerPoint),
      ErrorAnswer(<< "t" >>), ErrorAnswer(Text(LongErrLen)),
      ErrorWord \o << "s" >> \o Text(LengthPerPoint) }

FineAnswers == { Text(n) : n \in (0 .. MaxFineLen) \cup { LongLen } }

ScoreTurn(task, answer) == [task |-> task, question |-> "q", answer |-> answer]

TurnLists ==
    UNION { [ 1 .. n -> { ScoreTurn(t, a) : t \in ScoreTasks, a \in CoarseAnswers } ] :
              n \in 0 .. MaxTurns }
    \cup { << ScoreTurn(DEFAULT_TASKS[1], a) >> : a \in FineAnswers }

InitScore ==
    /\ request = [participants |-> [r \in {"agent"} |-> "url"], config |-> EmptyDict]
    /\ pc = "score_call"
    /\ validation = validate_request(request)
    /\ persona = << "P" >>
    /\ questions = << >>
    /\ qa_pairs \in TurnLists
    /\ context_id = None
    /\ idx = 0
    /\ scores = NoScores
    /\ sent = << >>
    /\ replies = << >>
    /\ profileCalls = 0
    /\ statusLog = << >>
    /\ artifacts = << >>
    /\ failedMsgs = << >>
    /\ exc = NoExc
    /\ profileResp = NoResp

\* scores = self._score_answers(persona, qa_pairs)
CallScore ==
    /\ pc = "score_call"
    /\ scores' = _score_answers(persona, qa_pairs)
    /\ pc' = "score_done"
    /\ UNCHANGED << request, validation, persona, questions, qa_pairs,
                    context_id, idx, sent, replies, profileCalls, statusLog,
                    artifacts, failedMsgs, exc, profileResp >>

NextScore == CallScore

SpecScore == InitScore /\ [][NextScore]_vars

----------------------------------------------------------------------------
(* Properties of _score_answers *)

\* a = b, a <= b for rationals with positive denominators
RatEq(a, b) == a.num * b.den = b.num * a.den

RatLe(a, b) == a.num * b.den <= b.num * a.den

Whole(n) == [num |-> n, den |-> 1]

\* the categories of the scored turns
TurnTasks == { qa_pairs[k].task : k \in 1 .. Len(qa_pairs) }

RECURSIVE DenProduct(_, _)
DenProduct(f, S) ==
    IF S = {} THEN 1
    ELSE LET t == CHOOSE t \in S : TRUE IN f[t].den * DenProduct(f, S \ {t})

\* the sum of f over S as a fraction of the common denominator d
RECURSIVE NumSum(_, _, _)
NumSum(f, S, d) ==
    IF S = {} THEN 0
    ELSE LET t == CHOOSE t \in S : TRUE
         IN  f[t].num * (d \div f[t].den) + NumSum(f, S \ {t}, d)

\* the turns of the example: category A with scores 1.0 and 5.0, category B
\* with 4.0
ExampleTurns ==
    << ScoreTurn(DEFAULT_TASKS[1], Text(50)),
       ScoreTurn(DEFAULT_TASKS[1], Text(250)),
       ScoreTurn(DEFAULT_TASKS[5], Text(200)) >>

\* C15: the overall score is the mean of the per-category means, each
\* category weighted equally, and 0.0 when no category was scored; the
\* example yields 3.5
C15_MeanOfMeans ==
    pc = "score_done" =>
        LET per == scores.per_task_scores
            d == DenProduct(per, DOMAIN per)
        IN  /\ DOMAIN per = {} => scores.overall_score = Whole(0)
            /\ DOMAIN per # {} =>
                 RatEq(scores.overall_score,
                       [num |-> NumSum(per, DOMAIN per, d),
                        den |-> d * Cardinality(DOMAIN per)])
            /\ qa_pairs = ExampleTurns =>
                 /\ RatEq(scores.overall_score, [num |-> 7, den |-> 2])
                 /\ ~RatEq(scores.overall_score, [num |-> 10, den |-> 3])

C15_Witness ==
    /\ pc = "score_done"
    /\ qa_pairs = ExampleTurns
    /\ scores.overall_score = [num |-> 7, den |-> 2]

\* the turns of a category, and the sum of their scores in fiftieths of a
\* point: 0 for an answer that begins with "Error", else the length held
\* within 50 .. 250
TurnsOf(task) == { k \in 1 .. Len(qa_pairs) : qa_pairs[k].task = task }

Fiftieths(answer) ==
    IF StartsWith(answer, ErrorWord) THEN 0
    ELSE IF Len(answer) < 50 THEN 50
    ELSE IF Len(answer) > 250 THEN 250
    ELSE Len(answer)

RECURSIVE FiftiethsSum(_)
FiftiethsSum(K) ==
    IF K = {} THEN 0
    ELSE LET k == CHOOSE k \in K : TRUE
         IN  Fiftieths(qa_pairs[k].answer) + FiftiethsSum(K \ {k})

\* C16: the per-category map has exactly the categories of the turns, each
\* with the mean of the scores of all its turns, error turns counted as 0.0
C16_PerCategoryMeans ==
    pc = "score_done" =>
        /\ DOMAIN scores.per_task_scores = TurnTasks
        /\ \A t \in TurnTasks :
             RatEq(scores.per_task_scores[t],
                   [num |-> FiftiethsSum(TurnsOf(t)),
                    den |-> 50 * Cardinality(TurnsOf(t))])

\* a category with an error turn and a scored turn: (0.0 + 5.0) / 2
C16_Witness ==
    /\ pc = "score_done"
    /\ qa_pairs = << ScoreTurn(DEFAULT_TASKS[1], ErrorAnswer(<< "t" >>)),
                     ScoreTurn(DEFAULT_TASKS[1], Text(250)) >>
    /\ DOMAIN scores.per_task_scores = { DEFAULT_TASKS[1] }
    /\ scores.per_task_scores[DEFAULT_TASKS[1]] = [num |-> 5, den |-> 2]

\* the score of the only turn of a scored list
OnlyScore == scores.per_task_scores[qa_pairs[1].task]

OneTurnScored == pc = "score_done" /\ Len(qa_pairs) = 1

\* C17 as stated, the error sentinel being "Error: ": an answer that begins
\* with it scores 0.0, every other answer scores within [1.0, 5.0]
C17_SentinelOnly ==
    OneTurnScored =>
        IF StartsWith(qa_pairs[1].answer, ErrorSentinel)
        THEN OnlyScore = Whole(0)
        ELSE RatLe(Whole(1), OnlyScore) /\ RatLe(OnlyScore, Whole(5))

\* C17 amended: an answer that begins with "Error" scores 0.0 whatever its
\* length, every other answer scores within [1.0, 5.0]
C17_ErrorPrefixZero ==
    OneTurnScored =>
        IF StartsWith(qa_pairs[1].answer, ErrorWord)
        THEN OnlyScore = Whole(0)
        ELSE RatLe(Whole(1), OnlyScore) /\ RatLe(OnlyScore, Whole(5))

\* the long error answer was scored 0.0
C17_Witness ==
    /\ OneTurnScored
    /\ qa_pairs[1].answer = ErrorAnswer(Text(LongErrLen))
    /\ OnlyScore = Whole(0)

\* C18: a non-error answer of length L scores min(5.0, max(1.0, L / 50.0)):
\* 1.0 up to L = 50, L / 50 from 50 to 250, 5.0 from 250 on
C18_LengthScore ==
    (OneTurnScored /\ ~StartsWith(qa_pairs[1].answer, ErrorWord)) =>
        LET L == Len(qa_pairs[1].answer)
        IN  /\ L <= 50 => OnlyScore = Whole(1)
            /\ (50 <= L /\ L <= 250) => RatEq(OnlyScore, [num |-> L, den |-> 50])
            /\ L >= 250 => OnlyScore = Whole(5)

\* an answer of 1000 characters was scored 5.0
C18_Witness ==
    /\ OneTurnScored
    /\ Len(qa_pairs[1].answer) = 1000
    /\ OnlyScore = Whole(5)

----------------------------------------------------------------------------
(* Cancellation of the run's task: CancelledError is raised at the await the
   run is suspended at *)

\* the run is inside run_eval's try statement and not finished
Running ==
    pc \in {"fetching", "await_profile", "generating", "asking", "send",
            "await_reply", "scoring", "reporting"}

Cancel ==
    /\ Running
    /\ IF pc = "await_reply" /\ Catches(CancelledError)
       THEN \* the except clause of the turn
            /\ replies' = Append(replies, [kind |-> "cancelled", result |-> EmptyDict,
                                            text |-> << >>])
            /\ qa_pairs' = RecordError(qa_pairs, questions[idx + 1], << >>)
            /\ idx' = idx + 1
            /\ pc' = LoopPc(idx + 1)
            /\ UNCHANGED << exc, failedMsgs, profileResp >>
       ELSE /\ replies' = IF pc = "await_reply"
                          THEN Append(replies, [kind |-> "cancelled",
                                                result |-> EmptyDict, text |-> << >>])
                          ELSE replies
            /\ profileResp' = IF pc = "await_profile"
                              THEN [kind |-> "cancelled", json |-> EmptyDict]
                              ELSE profileResp
            /\ IF Catches(CancelledError)
               THEN Handler(CancelledError)
               ELSE /\ exc' = CancelledError
                    /\ pc' = "cancelled"
                    /\ UNCHANGED failedMsgs
            /\ UNCHANGED << qa_pairs, idx >>
    /\ UNCHANGED << request, validation, persona, questions, context_id,
                    scores, sent, profileCalls, statusLog, artifacts >>

NextCancel == Next \/ Cancel

SpecCancel == Init /\ [][NextCancel]_vars

\* the cancellation has reached the run
CancelSeen ==
    \/ exc = CancelledError
    \/ profileResp.kind = "cancelled"
    \/ \E k \in 1 .. Len(replies) : replies[k].kind = "cancelled"

\* C19: once the cancellation is observed no new step is issued: no profile
\* request, no send_message, no status update and no artifact follows
C19_NoStepAfterCancel ==
    [][ CancelSeen =>
          /\ profileCalls' = profileCalls
          /\ sent' = sent
          /\ statusLog' = statusLog
          /\ artifacts' = artifacts ]_vars

\* a run cancelled while its second send_message was pending
C19_Witness ==
    /\ pc = "cancelled"
    /\ Len(sent) = 2
    /\ Len(questions) = 4
    /\ replies[2].kind = "cancelled"
    /\ artifacts = << >>

----------------------------------------------------------------------------
(* Termination: the run under fair scheduling, every network call coming
   back with a result or an exception *)

\* a requested count above the number of templates
LiveNum == 7

LiveConfigs == { EmptyDict, [k \in {"num_questions"} |-> IntVal(LiveNum)] }

LiveRequests == [participants : Participants, config : LiveConfigs]

\* two of the dicts send_message can return: with a token, and without the key
LiveResults ==
    { r \in Results : /\ "response" \in DOMAIN r
                      /\ r["response"] = << "h", "i" >>
                      /\ "context_id" \in DOMAIN r => r["context_id"] = << "c", "1" >> }

InitLive ==
    /\ request \in LiveRequests
    /\ pc = "validate"
    /\ validation = [ok |-> TRUE, reason |-> "", roles |-> {}]
    /\ persona = None
    /\ questions = << >>
    /\ qa_pairs = << >>
    /\ context_id = None
    /\ idx = 0
    /\ scores = NoScores
    /\ sent = << >>
    /\ replies = << >>
    /\ profileCalls = 0
    /\ statusLog = << >>
    /\ artifacts = << >>
    /\ failedMsgs = << >>
    /\ exc = NoExc
    /\ profileResp = NoResp

TurnReturnLive == TurnReturnFrom(LiveResults)

NextLive ==
    \/ Validate
    \/ Start
    \/ FetchPersona
    \/ ProfileReturn
    \/ GenerateQuestions
    \/ BeginAsk
    \/ SendTurn
    \/ TurnReturnLive
    \/ TurnRaise
    \/ Score
    \/ Report

\* the coroutine is scheduled whenever it can run, and a pending network
\* call comes back
SpecLive == InitLive /\ [][NextLive]_vars /\ WF_vars(NextLive)

\* C20: every run of run_eval ends, Done or Failed, after at most one
\* profile request and at most 5 turns; an unreachable subject ends Failed
C20_Terminates ==
    /\ (pc = "start") ~> (pc \in {"done", "raised"})
    /\ [](profileCalls <= 1 /\ Len(sent) <= Len(question_templates))
    /\ (profileResp.kind = "RequestError") ~> (pc = "raised" /\ exc = PersonaError(ErrConnect))

\* a run asked for more questions than there are templates, Done after 5 turns
C20_Witness ==
    /\ pc = "done"
    /\ NumQuestions(request) = IntVal(LiveNum)
    /\ Len(sent) = Len(question_templates)
    /\ Len(question_templates) < LiveNum
    /\ profileCalls = 1

----------------------------------------------------------------------------
(* Two runs served by one evaluator instance: two _ask_questions calls
   interleaved at their await send_message. In this specification pc,
   questions, qa_pairs, context_id, idx, sent and replies are functions of
   the run: each holds what the run's own call frame, request log and reply
   log hold. *)

Runs == { "r1", "r2" }

\* the most questions a run asks here
MaxRunQuestions == 2

\* the token the subject hands to run r, and its answer to run r
TokenOf(r) == IF r = "r1" THEN << "c", "1" >> ELSE << "c", "2" >>

RunText(r) == IF r = "r1" THEN << "a", "1" >> ELSE << "a", "2" >>

\* the dicts send_message returns to run r
RunResults(r) ==
    { EmptyDict, [k \in {"response"} |-> RunText(r)] }
    \cup { [k \in {"response", "context_id"} |->
              IF k = "response" THEN RunText(r) ELSE c] : c \in { None, TokenOf(r) } }

\* one place for qa_pairs and context_id, shared by all calls (attributes of
\* the evaluator instance)
Local_shared(r) == "r1"

\* qa_pairs and context_id are locals of the call: every run has its own
Local(r) == r

InitTwo ==
    /\ request = [participants |-> [r \in {"agent"} |-> "url"], config |-> EmptyDict]
    /\ pc = [r \in Runs |-> "begin"]
    /\ validation = validate_request(request)
    /\ persona = << "P" >>
    /\ \E n \in [Runs -> 1 .. MaxRunQuestions] :
         questions = [r \in Runs |-> _generate_questions(persona, n[r], "general")]
    /\ qa_pairs = [r \in Runs |-> << >>]
    /\ context_id = [r \in Runs |-> None]
    /\ idx = [r \in Runs |-> 0]
    /\ scores = NoScores
    /\ sent = [r \in Runs |-> << >>]
    /\ replies = [r \in Runs |-> << >>]
    /\ profileCalls = 0
    /\ statusLog = << >>
    /\ artifacts = << >>
    /\ failedMsgs = << >>
    /\ exc = NoExc
    /\ profileResp = NoResp

\* for i, q_data in enumerate(questions): the next turn, or return qa_pairs
RunLoopPc(r, n) == IF n < Len(questions[r]) THEN "send" ELSE "returned"

\* qa_pairs = []; context_id = None
AskBegin(r) ==
    /\ pc[r] = "begin"
    /\ qa_pairs' = [qa_pairs EXCEPT ![Local(r)] = << >>]
    /\ context_id' = [context_id EXCEPT ![Local(r)] = None]
    /\ pc' = [pc EXCEPT ![r] = RunLoopPc(r, 0)]
    /\ UNCHANGED << request, validation, persona, questions, idx, scores, sent,
                    replies, profileCalls, statusLog, artifacts, failedMsgs,
                    exc, profileResp >>

\* send_message(message=question, base_url=..., context_id=context_id) issued
AskSend(r) ==
    /\ pc[r] = "send"
    /\ sent' = [sent EXCEPT ![r] =
                  Append(@, [message |-> questions[r][idx[r] + 1].question,
                             context_id |-> context_id[Local(r)]])]
    /\ pc' = [pc EXCEPT ![r] = "await_reply"]
    /\ UNCHANGED << request, validation, persona, questions, qa_pairs,
                    context_id, idx, scores, replies, profileCalls, statusLog,
                    artifacts, failedMsgs, exc, profileResp >>

\* send_message returns a dict to run r
AskReturn(r) ==
    /\ pc[r] = "await_reply"
    /\ \E result \in RunResults(r) :
         /\ replies' = [replies EXCEPT ![r] =
                          Append(@, [kind |-> "return", result |-> result,
                                     text |-> << >>])]
         /\ context_id' = [context_id EXCEPT ![Local(r)] = NextContext(result, @)]
         /\ qa_pairs' = [qa_pairs EXCEPT ![Local(r)] =
                           RecordAnswer(@, questions[r][idx[r] + 1], result)]
    /\ idx' = [idx EXCEPT ![r] = @ + 1]
    /\ pc' = [pc EXCEPT ![r] = RunLoopPc(r, idx[r] + 1)]
    /\ UNCHANGED << request, validation, persona, questions, scores, sent,
                    profileCalls, statusLog, artifacts, failedMsgs, exc,
                    profileResp >>

\* send_message raises in run r: the except clause of the turn
AskRaise(r) ==
    /\ pc[r] = "await_reply"
    /\ \E text \in RaiseTexts :
         /\ replies' = [replies EXCEPT ![r] =
                          Append(@, [kind |-> "raise", result |-> EmptyDict,
                                     text |-> text])]
         /\ qa_pairs' = [qa_pairs EXCEPT ![Local(r)] =
                           RecordError(@, questions[r][idx[r] + 1], text)]
    /\ idx' = [idx EXCEPT ![r] = @ + 1]
    /\ pc' = [pc EXCEPT ![r] = RunLoopPc(r, idx[r] + 1)]
    /\ UNCHANGED << request, validation, persona, questions, context_id,
                    scores, sent, profileCalls, statusLog, artifacts,
                    failedMsgs, exc, profileResp >>

NextTwo == \E r \in Runs : AskBegin(r) \/ AskSend(r) \/ AskReturn(r) \/ AskRaise(r)

SpecTwo == InitTwo /\ [][NextTwo]_vars

\* the k-th reply to run r returned the token c
ReturnedTo(r, k, c) ==
    /\ replies[r][k].kind = "return"
    /\ "context_id" \in DOMAIN replies[r][k].result
    /\ replies[r][k].result["context_id"] = c

\* the answer the k-th reply to run r amounts to
ReplyAnswer(r, k) ==
    IF replies[r][k].kind = "return"
    THEN AnswerOf(replies[r][k].result)
    ELSE ErrorAnswer(replies[r][k].text)

\* the turns run r holds: after begin its own frame, once returned the list
\* it was given back
RunTurns(r) == qa_pairs[r]

\* C13: under every interleaving of two runs, a request of a run carries
\* None or a token returned earlier to that same run, and the turns of a run
\* are its own questions with the answers given to it, in order
C13_RunsIsolated ==
    \A r \in Runs :
       /\ \A k \in 1 .. Len(sent[r]) :
             \/ sent[r][k].context_id = None
             \/ \E j \in 1 .. k - 1 : ReturnedTo(r, j, sent[r][k].context_id)
       /\ pc[r] # "begin" =>
             /\ Len(RunTurns(r)) = Len(replies[r])
             /\ \A k \in 1 .. Len(RunTurns(r)) :
                   RunTurns(r)[k] = Turn(questions[r][k], ReplyAnswer(r, k))

\* both runs suspended in their second send_message, each carrying the token
\* it was given in its first turn
C13_Witness ==
    /\ \A r \in Runs :
          /\ pc[r] = "await_reply"
          /\ Len(sent[r]) = 2
          /\ sent[r][2].context_id = TokenOf(r)
          /\ qa_pairs[r] = << Turn(questions[r][1], RunText(r)) >>
    /\ TokenOf("r1") # TokenOf("r2")

----------------------------------------------------------------------------
(* The token held by _ask_questions *)

\* C21: the token is never lost once established: after the first turn that
\* returned a token every later request carries a token, whatever the turns
\* in between came to (raised, key absent, or a null context_id)
C21_TokenNeverLost ==
    \A j \in 1 .. Len(sent) :
       (\E i \in 1 .. j - 1 : \E t \in Tokens : ReturnedToken(i, t))
          => sent[j].context_id \in Tokens

----------------------------------------------------------------------------
(* The range of the scores *)

InRange(x) == RatLe(Whole(0), x) /\ RatLe(x, Whole(5))

\* C22: for every list of turns, every per-category score and the overall
\* score returned by _score_answers lie in [0.0, 5.0]
C22_ScoresInRange ==
    pc = "score_done" =>
        /\ InRange(scores.overall_score)
        /\ \A t \in DOMAIN scores.per_task_scores : InRange(scores.per_task_scores[t])

\* a scored list of three turns that mixes an error answer with answers of
\* 250 characters: one category at 0.0, the other at 5.0
C22_Witness ==
    /\ pc = "score_done"
    /\ Len(qa_pairs) = 3
    /\ \E k \in 1 .. 3 : StartsWith(qa_pairs[k].answer, ErrorWord)
    /\ \E k \in 1 .. 3 : Len(qa_pairs[k].answer) = 250
    /\ \E t, u \in DOMAIN scores.per_task_scores :
          /\ scores.per_task_scores[t] = Whole(0)
          /\ scores.per_task_scores[u] = Whole(5)
    /\ RatEq(scores.overall_score, [num |-> 5, den |-> 2])

----------------------------------------------------------------------------
(* The subject: WhiteAgentExecutor.execute serving the requests of one
   conversation, one after the other. In this specification request is the
   message being served and context_id is context.context_id; sent is the
   log of the requests received and replies the log of the messages put on
   the event queue. *)

\* the most requests of a conversation here
MaxRequests == 2

\* context.get_user_input(): empty, or a question
AgentTexts == { << >>, << "q" >> }

AgentRequests == [message : AgentTexts, context_id : Tokens \cup { None }]

\* what chat.completions.create comes to: a completion whose first choice has
\* the content v (a text, "" or None), a completion without choices, or an
\* exception with the text v
LLMOutcomes ==
    { [kind |-> "content", v |-> x] : x \in { << "a" >>, << >>, None } }
    \cup { [kind |-> "no_choices", v |-> << >>] }
    \cup { [kind |-> "raise", v |-> t] : t \in { << >>, << "t" >> } }

NoLLM == [kind |-> "none", v |-> << >>]

\* "Error: Empty response from LLM."
ErrEmptyLLM == ErrorSentinel \o << "E" >>

\* "Error calling OpenAI: "
ErrCallingOpenAI == ErrorWord \o << " ", "c", ":", " " >>

\* str(IndexError): "list index out of range"
IndexErrorText == << "l" >>

\* "Error: No question text was provided in the request."
ErrNoQuestion == ErrorSentinel \o << "Q" >>

\* f"WHITE AGENT CRASHED:\n{e}\n\nTRACEBACK:\n{tb_str}"
CrashReport(text) == << "W" >> \o text

\* str(e) of the OpenAIError of a client built without an API key
NoKeyText == << "k" >>

\* invoke that returns the content as it is
invoke_bare(o) ==
    CASE o.kind = "content" -> o.v
      [] o.kind = "no_choices" -> ErrCallingOpenAI \o IndexErrorText
      [] OTHER -> ErrCallingOpenAI \o o.v

\* return completion.choices[0].message.content or "Error: Empty response
\* from LLM."; except Exception as e: return f"Error calling OpenAI: {str(e)}"
invoke(o) ==
    CASE o.kind = "content" -> IF o.v = None \/ o.v = << >> THEN ErrEmptyLLM ELSE o.v
      [] o.kind = "no_choices" -> ErrCallingOpenAI \o IndexErrorText
      [] OTHER -> ErrCallingOpenAI \o o.v

\* a reply that leaves the context id out
AnswerMessage_noContext(result, ctx) == [text |-> result, context_id |-> None]

\* new_agent_text_message(result, context_id=context.context_id)
AnswerMessage(result, ctx) == [text |-> result, context_id |-> ctx]

\* new_agent_text_message(error_msg)
ErrorMessage(text) == [text |-> text, context_id |-> None]

\* await event_queue.enqueue_event(msg), logged with the path that sent it
\* and with what the LLM call came to
Enqueue(kind, msg, o) ==
    replies' = Append(replies, [kind |-> kind, msg |-> msg, llm |-> o,
                                ctx |-> context_id])

InitAgent ==
    /\ request = [message |-> << >>, context_id |-> None]
    /\ pc = "idle"
    /\ validation = [ok |-> TRUE, reason |-> "", roles |-> {}]
    /\ persona = << "P" >>
    /\ questions = << >>
    /\ qa_pairs = << >>
    /\ context_id = None
    /\ idx = 0
    /\ scores = NoScores
    /\ sent = << >>
    /\ replies = << >>
    /\ profileCalls = 0
    /\ statusLog = << >>
    /\ artifacts = << >>
    /\ failedMsgs = << >>
    /\ exc = NoExc
    /\ profileResp = NoResp

\* a request arrives; the request context takes the context id of the
\* message, or a new one when the message has none
AgentReceive ==
    /\ pc = "idle"
    /\ Len(sent) < MaxRequests
    /\ \E req \in AgentRequests, fresh \in Tokens :
         /\ request' = req
         /\ sent' = Append(sent, req)
         /\ context_id' = IF req.context_id = None THEN fresh ELSE req.context_id
    /\ pc' = "execute"
    /\ UNCHANGED << validation, persona, questions, qa_pairs, idx, scores,
                    replies, profileCalls, statusLog, artifacts, failedMsgs,
                    exc, profileResp >>

\* execute up to the LLM call: the empty question is answered with an error
\* text; WhiteAgent(...) builds the client, which raises without an API key
AgentExecute ==
    /\ pc = "execute"
    /\ IF request.message = << >>
       THEN /\ Enqueue("empty", ErrorMessage(ErrNoQuestion), NoLLM)
            /\ pc' = "idle"
       ELSE \E keyPresent \in BOOLEAN :
              IF keyPresent
              THEN pc' = "llm_call" /\ UNCHANGED replies
              ELSE /\ Enqueue("crash", ErrorMessage(CrashReport(NoKeyText)), NoLLM)
                   /\ pc' = "idle"
    /\ UNCHANGED << request, validation, persona, questions, qa_pairs,
                    context_id, idx, scores, sent, profileCalls, statusLog,
                    artifacts, failedMsgs, exc, profileResp >>

\* the LLM call comes back: result = await agent_logic.invoke(question_text),
\* result[:100] for the log, and the reply
AgentReply ==
    /\ pc = "llm_call"
    /\ \E o \in LLMOutcomes :
         LET result == invoke(o)
         IN  IF IsStr(result)
             THEN Enqueue("answer", AnswerMessage(result, context_id), o)
             ELSE Enqueue("crash", ErrorMessage(CrashReport(<< "T" >>)), o)
    /\ pc' = "idle"
    /\ UNCHANGED << request, validation, persona, questions, qa_pairs,
                    context_id, idx, scores, sent, profileCalls, statusLog,
                    artifacts, failedMsgs, exc, profileResp >>

NextAgent == AgentReceive \/ AgentExecute \/ AgentReply

SpecAgent == InitAgent /\ [][NextAgent]_vars

\* C23: execute puts exactly one message on the queue for every request,
\* never an empty one, and raises nothing; whenever the LLM was called,
\* whatever it came to, the reply is invoke's non-empty string and not a
\* crash report
C23_AlwaysText ==
    /\ exc = NoExc
    /\ Len(replies) = IF pc = "idle" THEN Len(sent) ELSE Len(sent) - 1
    /\ \A k \in 1 .. Len(replies) :
          /\ IsStr(replies[k].msg.text)
          /\ replies[k].msg.text # << >>
          /\ sent[k].message = << >> <=> replies[k].kind = "empty"
          /\ replies[k].llm # NoLLM =>
                /\ replies[k].kind = "answer"
                /\ replies[k].llm.kind = "raise" =>
                      StartsWith(replies[k].msg.text, ErrCallingOpenAI)
                /\ (replies[k].llm.kind = "content" /\ replies[k].llm.v \in { << >>, None }) =>
                      replies[k].msg.text = ErrEmptyLLM

\* a conversation of two requests: the LLM call of the first raised with an
\* empty text, that of the second returned empty content, both were answered
C23_Witness ==
    /\ pc = "idle"
    /\ Len(replies) = 2
    /\ replies[1].llm = [kind |-> "raise", v |-> << >>]
    /\ replies[2].llm = [kind |-> "content", v |-> << >>]
    /\ replies[1].kind = "answer"
    /\ replies[2].msg.text = ErrEmptyLLM

\* C24: a reply to an answered question carries the context id of the
\* request context, which is the one the request carried when it carried
\* one; the error replies (empty question, crash) carry none
C24_ReplyContext ==
    \A k \in 1 .. Len(replies) :
       /\ replies[k].kind = "answer" =>
             /\ replies[k].msg.context_id = replies[k].ctx
             /\ replies[k].msg.context_id \in Tokens
             /\ sent[k].context_id # None =>
                   replies[k].msg.context_id = sent[k].context_id
       /\ replies[k].kind \in {"empty", "crash"} => replies[k].msg.context_id = None

\* the first request carried no context id; the second carried the token
\* the first reply returned and was answered with the same token
C24_Witness ==
    /\ Len(replies) = 2
    /\ sent[1].context_id = None
    /\ replies[1].kind = "answer"
    /\ sent[2].context_id = replies[1].msg.context_id
    /\ replies[2].kind = "answer"
    /\ replies[2].msg.context_id = replies[1].msg.context_id

====
